---- MODULE Spec2Model ----
(***************************************************************************)
(* Model of cmd/billing/billing.go: the `billing` command tree built by    *)
(* NewCmdBilling.  One action per leaf command; an action is one whole     *)
(* invocation of the cobra command tree (argument validation, the          *)
(* persistent pre-run hook, the Run closure and the request method it      *)
(* calls).  The options object `o` and the base context it points to are   *)
(* shared by all invocations executed on the same tree.                    *)
(*                                                                         *)
(* Conventions.  A Go string that the code parses (a positional argument)  *)
(* is a sequence of one-character strings.  A Go pointer, or an optional   *)
(* command-line flag, is a sequence of length at most one: <<>> is nil /   *)
(* flag not given.  A nil error is the string "nil".                       *)
(***************************************************************************)
EXTENDS Integers, Sequences, FiniteSets

VARIABLES
    HasAuth,        \* o.Base.HasAuth
    Args,           \* o.Base.Args
    Options,        \* o.Base.Options (*govultr.ListOptions)
    InvoiceItemID,  \* o.InvoiceItemID
    inv,            \* the invocation being executed: command, argv, flags
    resp,           \* what the collaborator returned in this invocation
    calls,          \* calls made to o.Base.Client.Billing in this invocation
    displays,       \* calls made to o.Base.Printer.Display in this invocation
    errors,         \* errors handed to printer.Error in this invocation
    retErr,         \* error returned to cobra by Args / PersistentPreRunE
    status,         \* how the invocation ended
    exitCode,       \* process exit status once the process has ended, else -1
    trace,          \* the steps of this invocation, in program order
    oldItemID       \* o.InvoiceItemID as it was when this invocation began

vars == <<HasAuth, Args, Options, InvoiceItemID, inv, resp, calls, displays,
          errors, retErr, status, exitCode, trace, oldItemID>>

----------------------------------------------------------------------------
(* Bounds and input sets *)

\* most positional arguments given to one invocation
MaxArgs == 2
\* most records in one list response
MaxItems == 3

Nil == "nil"

\* positional-argument tokens: "42", "abc", "-7", "+7", "4a", "-" and ""
IdTokens == { <<"4", "2">>, <<"a", "b", "c">>, <<"-", "7">>, <<"+", "7">>,
              <<"4", "a">>, <<"-">>, <<>> }

\* a further positional argument, after the first: "9"
ExtraToken == <<"9">>

RECURSIVE Extra(_)
Extra(n) == IF n = 0 THEN <<>> ELSE <<ExtraToken>> \o Extra(n - 1)

\* argv after flag parsing: nothing, or a first token followed by extras
ArgLists == {<<>>} \cup { <<t>> \o Extra(n) : t \in IdTokens, n \in 0..(MaxArgs - 1) }

CursorFlags == { <<>>, <<"xyz">> }
PerPageFlags == { <<>>, <<50>>, <<0>> }

RECURSIVE Records(_)
Records(n) == IF n = 0 THEN <<>> ELSE Records(n - 1) \o << n >>

\* (records, meta, err) as a list call may return them
ListResponses ==
    { [result |-> Records(MaxItems), meta |-> << [Next |-> "abc"] >>, err |-> Nil],
      [result |-> <<>>, meta |-> <<>>, err |-> Nil],
      [result |-> <<>>, meta |-> <<>>, err |-> "request failed"],
      [result |-> Records(1), meta |-> << [Next |-> ""] >>, err |-> "request failed"] }

\* (invoice, err) as GetInvoice may return them; result is the *Invoice
GetResponses ==
    { [result |-> << 1 >>, meta |-> <<>>, err |-> Nil],
      [result |-> <<>>, meta |-> <<>>, err |-> Nil],
      [result |-> <<>>, meta |-> <<>>, err |-> "request failed"],
      [result |-> << 1 >>, meta |-> <<>>, err |-> "request failed"] }

NoResp == [result |-> <<>>, meta |-> <<>>, err |-> Nil]
NoInv == [cmd |-> "none", args |-> <<>>, cursor |-> <<>>, perPage |-> <<>>]

----------------------------------------------------------------------------
(* Program constants and messages *)

PerPageDefault == 100
APIKeyError == "APIKeyError"
InvoiceIDError == "please provide an invoice ID"
SyntaxError == "invalid syntax"

----------------------------------------------------------------------------
(* strconv.Atoi, as the code uses it on the positional invoice ID *)

IsDigit(c) == c \in {"0", "1", "2", "3", "4", "5", "6", "7", "8", "9"}

DigitVal(c) ==
    CASE c = "0" -> 0 [] c = "1" -> 1 [] c = "2" -> 2 [] c = "3" -> 3
      [] c = "4" -> 4 [] c = "5" -> 5 [] c = "6" -> 6 [] c = "7" -> 7
      [] c = "8" -> 8 [] c = "9" -> 9

RECURSIVE ParseDigits(_, _, _)
ParseDigits(s, i, n) ==
    IF i > Len(s) THEN [val |-> n, err |-> Nil]
    ELSE IF ~IsDigit(s[i]) THEN [val |-> 0, err |-> SyntaxError]
    ELSE ParseDigits(s, i + 1, n * 10 + DigitVal(s[i]))

\* a variant of Atoi that skips the characters that are not digits
RECURSIVE SkipDigits(_, _, _)
SkipDigits(s, i, n) ==
    IF i > Len(s) THEN [val |-> n, err |-> Nil]
    ELSE IF ~IsDigit(s[i]) THEN SkipDigits(s, i + 1, n)
    ELSE SkipDigits(s, i + 1, n * 10 + DigitVal(s[i]))

AtoiLenient(s) == SkipDigits(s, 1, 0)

Atoi(s) ==
    IF Len(s) = 0 THEN [val |-> 0, err |-> SyntaxError]
    ELSE LET signed == s[1] \in {"-", "+"}
             digits == IF signed THEN Tail(s) ELSE s
         IN  IF Len(digits) < 1 THEN [val |-> 0, err |-> SyntaxError]
             ELSE LET r == ParseDigits(digits, 1, 0)
                  IN  IF r.err # Nil THEN r
                      ELSE [val |-> IF s[1] = "-" THEN 0 - r.val ELSE r.val,
                            err |-> Nil]

----------------------------------------------------------------------------
(* The machine a handler works on: the shared options object and the       *)
(* effects of the invocation so far.                                       *)

Machine(args, options, itemID) ==
    [Args |-> args, Options |-> options, InvoiceItemID |-> itemID,
     calls |-> <<>>, displays |-> <<>>, errors |-> <<>>, retErr |-> Nil,
     status |-> "running", exitCode |-> -1, trace |-> <<>>]

Step(m, name) == [m EXCEPT !.trace = Append(@, name)]

\* printer.Error(fmt.Errorf("<prefix> : %v", cause))
Error(m, prefix, cause) ==
    [Step(m, "Error") EXCEPT !.errors = Append(@, [prefix |-> prefix, cause |-> cause])]

\* os.Exit(1): the process ends here
Exit(m) == [Step(m, "Exit") EXCEPT !.status = "exited", !.exitCode = 1]

\* a run-time panic (nil pointer dereference, index out of range): the
\* goroutine unwinds, nothing recovers it, the process ends with status 2
Panic(m) == [Step(m, "panic") EXCEPT !.status = "panicked", !.exitCode = 2]

\* o.Base.Printer.Display(data, err)
Display(m, data, err) ==
    [Step(m, "Display") EXCEPT !.displays = Append(@, [data |-> data, err |-> err]),
                               !.status = "done"]

\* a call to o.Base.Client.Billing
Call(m, fn, strID, intID, opts) ==
    [Step(m, fn) EXCEPT
        !.calls = Append(@, [fn |-> fn, strID |-> strID, intID |-> intID, opts |-> opts])]

\* utils.SetOptions(o.Base, cmd, args): the positional arguments of the
\* invocation are stored on the base context
SetOptions(m, args) == [Step(m, "SetOptions") EXCEPT !.Args = args]

\* cmd.Flags(): a flag not given on the command line has its registered default
FlagValue(given, default) == IF given = <<>> THEN default ELSE given[1]

invoicesListFlags(i) ==
    [cursor |-> FlagValue(i.cursor, ""), perPage |-> FlagValue(i.perPage, PerPageDefault)]

invoiceItemsListFlags(i) ==
    [cursor |-> FlagValue(i.cursor, ""), perPage |-> FlagValue(i.perPage, PerPageDefault)]

historyListFlags(i) ==
    [cursor |-> FlagValue(i.cursor, ""), perPage |-> FlagValue(i.perPage, PerPageDefault)]

\* utils.GetPaging(cmd): a fresh ListOptions holding the command's cursor and
\* per-page flag values
GetPaging(flags) == << [Cursor |-> flags.cursor, PerPage |-> flags.perPage] >>

----------------------------------------------------------------------------
(* options request methods *)

listHistory(b) == Call(b, "ListHistory", <<>>, 0, b.Options)

\* a variant of get that parses the ID first and gives up on a bad one
getParsed(b) ==
    IF Len(b.Args) < 1 THEN Panic(b)
    ELSE IF Atoi(b.Args[1]).err # Nil
         THEN Exit(Error(Step(b, "Atoi"), "error converting invoice id", Atoi(b.Args[1]).err))
         ELSE Call(Step(b, "Atoi"), "GetInvoice", b.Args[1], 0, <<>>)

get(b) ==
    IF Len(b.Args) < 1 THEN Panic(b)
    ELSE Call(b, "GetInvoice", b.Args[1], 0, <<>>)

\* a variant of listInvoices that forwards empty list options
listInvoicesNoPaging(b) ==
    Call(b, "ListInvoices", <<>>, 0, << [Cursor |-> "", PerPage |-> 0] >>)

listInvoices(b) == Call(b, "ListInvoices", <<>>, 0, b.Options)

listInvoiceItems(b) == Call(b, "ListInvoiceItems", <<>>, b.InvoiceItemID, b.Options)

----------------------------------------------------------------------------
(* The cobra commands of NewCmdBilling *)

Returned(m, e) == [m EXCEPT !.retErr = e, !.status = "failed"]

\* a variant of the pre-run hook without the authentication guard
PersistentPreRunENoGuard(m, hasAuth, args) ==
    SetOptions(Step(m, "PersistentPreRunE"), args)

PersistentPreRunE(m, hasAuth, args) ==
    LET m1 == SetOptions(Step(m, "PersistentPreRunE"), args)
    IN  IF ~hasAuth THEN Returned(m1, APIKeyError) ELSE m1

\* a variant of the list command that asks again after a failed request
invoicesListRunRetry(m, i, r) ==
    LET m1 == [Step(m, "GetPaging") EXCEPT !.Options = GetPaging(invoicesListFlags(i))]
        m2 == listInvoices(m1)
        m3 == IF r.err # Nil THEN listInvoices(m2) ELSE m2
    IN  IF r.err # Nil
        THEN Exit(Error(m3, "error retrieving billing invoice list", r.err))
        ELSE Display(m3, [printer |-> "BillingInvoicesPrinter",
                          records |-> r.result, meta |-> r.meta], r.err)

invoicesListRun(m, i, r) ==
    LET m1 == [Step(m, "GetPaging") EXCEPT !.Options = GetPaging(invoicesListFlags(i))]
        m2 == listInvoices(m1)
    IN  IF r.err # Nil
        THEN Exit(Error(m2, "error retrieving billing invoice list", r.err))
        ELSE Display(m2, [printer |-> "BillingInvoicesPrinter",
                          records |-> r.result, meta |-> r.meta], r.err)

\* a variant of the validator that accepts anything
invoiceGetArgsNone(args) == Nil

invoiceGetArgs(args) == IF Len(args) < 1 THEN InvoiceIDError ELSE Nil

invoiceGetRun(m, r) ==
    LET m1 == get(m)
    IN  IF m1.status # "running" THEN m1
        ELSE IF r.err # Nil
        THEN Exit(Error(m1, "error getting invoice", r.err))
        ELSE IF r.result = <<>>
        THEN Panic(m1)          \* *inv with inv == nil
        ELSE Display(m1, [printer |-> "BillingInvoicePrinter",
                          records |-> << r.result[1] >>, meta |-> <<>>], r.err)

\* a variant of the validator that wants one argument and no more
invoiceItemsListArgsExact(args) == IF Len(args) # 1 THEN InvoiceIDError ELSE Nil

invoiceItemsListArgs(args) == IF Len(args) < 1 THEN InvoiceIDError ELSE Nil

\* a variant of the items command that never stores the parsed ID
invoiceItemsListRunStale(m, i, args, r) ==
    LET m1 == [Step(m, "GetPaging") EXCEPT !.Options = GetPaging(invoiceItemsListFlags(i))]
    IN  IF Len(args) < 1 THEN Panic(m1)
        ELSE LET conv == Atoi(args[1])
                 m2 == Step(m1, "Atoi")
             IN  IF conv.err # Nil
                 THEN Exit(Error(m2, "error converting invoice item id", conv.err))
                 ELSE LET m4 == listInvoiceItems(m2)
                      IN  IF r.err # Nil
                          THEN Exit(Error(m4, "error retrieving billing invoice item list", r.err))
                          ELSE Display(m4, [printer |-> "BillingInvoiceItemsPrinter",
                                            records |-> r.result, meta |-> r.meta], r.err)

invoiceItemsListRun(m, i, args, r) ==
    LET m1 == [Step(m, "GetPaging") EXCEPT !.Options = GetPaging(invoiceItemsListFlags(i))]
    IN  IF Len(args) < 1 THEN Panic(m1)          \* args[0] out of range
        ELSE LET conv == Atoi(args[1])
                 m2 == Step(m1, "Atoi")
             IN  IF conv.err # Nil
                 THEN Exit(Error(m2, "error converting invoice item id", conv.err))
                 ELSE LET m3 == [m2 EXCEPT !.InvoiceItemID = conv.val]
                          m4 == listInvoiceItems(m3)
                      IN  IF r.err # Nil
                          THEN Exit(Error(m4, "error retrieving billing invoice item list", r.err))
                          ELSE Display(m4, [printer |-> "BillingInvoiceItemsPrinter",
                                            records |-> r.result, meta |-> r.meta], r.err)

\* a variant of the history command that reports a failed request and goes on
historyListRunGoOn(m, i, r) ==
    LET m1 == [Step(m, "GetPaging") EXCEPT !.Options = GetPaging(historyListFlags(i))]
        m2 == listHistory(m1)
        m3 == IF r.err # Nil
              THEN Error(m2, "error retrieving billing history list", r.err)
              ELSE m2
    IN  Display(m3, [printer |-> "BillingHistoryPrinter",
                     records |-> r.result, meta |-> r.meta], r.err)

historyListRun(m, i, r) ==
    LET m1 == [Step(m, "GetPaging") EXCEPT !.Options = GetPaging(historyListFlags(i))]
        m2 == listHistory(m1)
    IN  IF r.err # Nil
        THEN Exit(Error(m2, "error retrieving billing history list", r.err))
        ELSE Display(m2, [printer |-> "BillingHistoryPrinter",
                          records |-> r.result, meta |-> r.meta], r.err)

----------------------------------------------------------------------------
(* One invocation of a leaf command, as cobra executes it: the command's   *)
(* Args validator, then the persistent pre-run hook inherited from         *)
(* `billing`, then the command's Run.  An error returned by the validator  *)
(* or by the hook ends the invocation before the next stage.               *)

ExecHistoryList(m, hasAuth, i, r) ==
    LET m1 == PersistentPreRunE(m, hasAuth, i.args)
    IN  IF m1.retErr # Nil THEN m1 ELSE historyListRun(m1, i, r)

ExecInvoicesList(m, hasAuth, i, r) ==
    LET m1 == PersistentPreRunE(m, hasAuth, i.args)
    IN  IF m1.retErr # Nil THEN m1 ELSE invoicesListRun(m1, i, r)

ExecInvoiceGet(m, hasAuth, i, r) ==
    LET m0 == Step(m, "Args")
        e == invoiceGetArgs(i.args)
    IN  IF e # Nil THEN Returned(m0, e)
        ELSE LET m1 == PersistentPreRunE(m0, hasAuth, i.args)
             IN  IF m1.retErr # Nil THEN m1 ELSE invoiceGetRun(m1, r)

ExecInvoiceItemsList(m, hasAuth, i, r) ==
    LET m0 == Step(m, "Args")
        e == invoiceItemsListArgs(i.args)
    IN  IF e # Nil THEN Returned(m0, e)
        ELSE LET m1 == PersistentPreRunE(m0, hasAuth, i.args)
             IN  IF m1.retErr # Nil THEN m1 ELSE invoiceItemsListRun(m1, i, i.args, r)

----------------------------------------------------------------------------
(* State machine *)

\* NewCmdBilling: o := &options{Base: base}; nothing has been invoked yet
Init ==
    /\ HasAuth \in BOOLEAN
    /\ Args = <<>>
    /\ Options = <<>>
    /\ InvoiceItemID = 0
    /\ inv = NoInv
    /\ resp = NoResp
    /\ calls = <<>>
    /\ displays = <<>>
    /\ errors = <<>>
    /\ retErr = Nil
    /\ status = "idle"
    /\ exitCode = -1
    /\ trace = <<>>
    /\ oldItemID = 0

\* the state after an invocation that left the machine m
Commit(i, r, m) ==
    /\ inv' = i
    /\ resp' = IF m.calls = <<>> THEN NoResp ELSE r
    /\ Args' = m.Args
    /\ Options' = m.Options
    /\ InvoiceItemID' = m.InvoiceItemID
    /\ calls' = m.calls
    /\ displays' = m.displays
    /\ errors' = m.errors
    /\ retErr' = m.retErr
    /\ status' = m.status
    /\ exitCode' = m.exitCode
    /\ trace' = m.trace
    /\ oldItemID' = InvoiceItemID
    /\ UNCHANGED HasAuth

Current == Machine(Args, Options, InvoiceItemID)

Invocation(cmd, a, c, p) == [cmd |-> cmd, args |-> a, cursor |-> c, perPage |-> p]

HistoryList ==
    /\ exitCode = -1
    /\ \E a \in ArgLists, c \in CursorFlags, p \in PerPageFlags, r \in ListResponses :
         LET i == Invocation("history list", a, c, p)
         IN  Commit(i, r, ExecHistoryList(Current, HasAuth, i, r))

InvoicesList ==
    /\ exitCode = -1
    /\ \E a \in ArgLists, c \in CursorFlags, p \in PerPageFlags, r \in ListResponses :
         LET i == Invocation("invoice list", a, c, p)
         IN  Commit(i, r, ExecInvoicesList(Current, HasAuth, i, r))

InvoiceGet ==
    /\ exitCode = -1
    /\ \E a \in ArgLists, r \in GetResponses :
         LET i == Invocation("invoice get", a, <<>>, <<>>)
         IN  Commit(i, r, ExecInvoiceGet(Current, HasAuth, i, r))

InvoiceItemsList ==
    /\ exitCode = -1
    /\ \E a \in ArgLists, c \in CursorFlags, p \in PerPageFlags, r \in ListResponses :
         LET i == Invocation("invoice items", a, c, p)
         IN  Commit(i, r, ExecInvoiceItemsList(Current, HasAuth, i, r))

Next == HistoryList \/ InvoicesList \/ InvoiceGet \/ InvoiceItemsList

Spec == Init /\ [][Next]_vars

----------------------------------------------------------------------------
(* Vocabulary of the properties *)

Invoked == inv.cmd # "none"

NeedsID == inv.cmd \in {"invoice get", "invoice items"}

ListCalls == {"ListHistory", "ListInvoices", "ListInvoiceItems"}

CallNames == ListCalls \cup {"GetInvoice"}

InTrace(name) == \E k \in 1..Len(trace) : trace[k] = name

\* an optional sign followed by one or more decimal digits
IsDecimalInteger(s) ==
    LET body == IF Len(s) > 0 /\ s[1] \in {"+", "-"} THEN Tail(s) ELSE s
    IN  /\ Len(body) > 0
        /\ \A k \in 1..Len(body) : IsDigit(body[k])

RECURSIVE Magnitude(_)
Magnitude(ds) ==
    IF Len(ds) = 0 THEN 0
    ELSE 10 * Magnitude(SubSeq(ds, 1, Len(ds) - 1)) + DigitVal(ds[Len(ds)])

\* the integer a decimal string denotes
DecimalValue(s) ==
    IF s[1] = "-" THEN 0 - Magnitude(Tail(s))
    ELSE IF s[1] = "+" THEN Magnitude(Tail(s))
    ELSE Magnitude(s)

\* the paging options the flags of the current invocation ask for
AskedPaging ==
    << [Cursor |-> IF inv.cursor = <<>> THEN "" ELSE inv.cursor[1],
        PerPage |-> IF inv.perPage = <<>> THEN 100 ELSE inv.perPage[1]] >>

\* the contextual prefix of each command's request error
RequestErrorPrefix ==
    CASE inv.cmd = "history list" -> "error retrieving billing history list"
      [] inv.cmd = "invoice list" -> "error retrieving billing invoice list"
      [] inv.cmd = "invoice get" -> "error getting invoice"
      [] inv.cmd = "invoice items" -> "error retrieving billing invoice item list"
      [] OTHER -> ""

----------------------------------------------------------------------------
(* C1 *)

\* C1, as stated: every invocation made without a credential ends with the
\* authentication-missing error and issues no call.
C1_NoAuthAlwaysAuthError ==
    (Invoked /\ ~HasAuth) => (retErr = APIKeyError /\ calls = <<>>)

\* C1, amended: an invocation made without a credential issues no call and
\* displays nothing; it ends with the authentication-missing error, except
\* that `invoice get` and `invoice items` given no positional argument end
\* with "please provide an invoice ID", the validator running before the hook.
C1_NoAuthNoCall ==
    (Invoked /\ ~HasAuth) =>
        /\ calls = <<>>
        /\ displays = <<>>
        /\ status = "failed"
        /\ retErr = IF NeedsID /\ Len(inv.args) = 0 THEN InvoiceIDError ELSE APIKeyError

C1_Witness ==
    /\ ~HasAuth
    /\ inv.cmd = "invoice items"
    /\ Len(inv.args) >= 1
    /\ retErr = APIKeyError
    /\ calls = <<>>

----------------------------------------------------------------------------
(* C2 *)

\* C2: `invoice get` and `invoice items` given no positional argument fail
\* with "please provide an invoice ID", before any ID is parsed and without
\* any call to the collaborator.
C2_MissingID ==
    (NeedsID /\ Len(inv.args) = 0) =>
        /\ retErr = InvoiceIDError
        /\ status = "failed"
        /\ ~InTrace("Atoi")
        /\ calls = <<>>

C2_Witness ==
    /\ HasAuth
    /\ inv.cmd = "invoice get"
    /\ inv.args = <<>>
    /\ retErr = InvoiceIDError

----------------------------------------------------------------------------
(* C3 *)

\* C3: `invoice items <id>`, authenticated, with an ID that is not a decimal
\* integer, reports a conversion error, exits with status 1 and never calls
\* ListInvoiceItems.
C3_ItemsBadID ==
    (inv.cmd = "invoice items" /\ HasAuth /\ Len(inv.args) >= 1
        /\ ~IsDecimalInteger(inv.args[1])) =>
        /\ errors = << [prefix |-> "error converting invoice item id",
                        cause |-> SyntaxError] >>
        /\ status = "exited"
        /\ exitCode = 1
        /\ calls = <<>>

C3_Witness ==
    /\ inv.cmd = "invoice items"
    /\ HasAuth
    /\ inv.args = << <<"a", "b", "c">> >>
    /\ exitCode = 1
    /\ Len(errors) = 1

----------------------------------------------------------------------------
(* C4 *)

\* C4: every list call receives exactly the cursor and page size the flags
\* of the invocation give; an omitted --per-page forwards 100 and an omitted
\* --cursor forwards the empty string.
C4_PagingForwarded ==
    \A k \in 1..Len(calls) :
        calls[k].fn \in ListCalls => calls[k].opts = AskedPaging

C4_Witness ==
    /\ inv.cmd = "invoice list"
    /\ inv.cursor = <<"xyz">>
    /\ inv.perPage = <<>>
    /\ Len(calls) = 1
    /\ calls[1].opts = << [Cursor |-> "xyz", PerPage |-> 100] >>

----------------------------------------------------------------------------
(* C5 *)

\* C5: when the collaborator returns an error (with or without a result)
\* the invocation reports it once with the command's prefix, exits with
\* status 1 and never calls Display.
C5_RequestError ==
    (Invoked /\ calls # <<>> /\ resp.err # Nil) =>
        /\ errors = << [prefix |-> RequestErrorPrefix, cause |-> resp.err] >>
        /\ status = "exited"
        /\ exitCode = 1
        /\ displays = <<>>

C5_Witness ==
    /\ inv.cmd = "invoice list"
    /\ calls # <<>>
    /\ resp.err # Nil
    /\ resp.result = <<>>
    /\ exitCode = 1

----------------------------------------------------------------------------
(* C6 *)

\* C6: when the collaborator returns a nil error, Display is called exactly
\* once, with an adapter holding exactly the returned records and page
\* metadata, and with a nil error.
C6_SuccessDisplayed ==
    (Invoked /\ calls # <<>> /\ resp.err = Nil) =>
        /\ Len(displays) = 1
        /\ displays[1].err = Nil
        /\ displays[1].data.records = resp.result
        /\ displays[1].data.meta = resp.meta

----------------------------------------------------------------------------
(* C7 *)

\* C7: an invocation makes at most one call to the collaborator, a failed
\* call is not repeated, and the call precedes any Display and any exit.
C7_AtMostOneCall ==
    /\ Len(calls) <= 1
    /\ Cardinality({k \in 1..Len(trace) : trace[k] \in CallNames}) = Len(calls)
    /\ \A j, k \in 1..Len(trace) :
         (trace[j] \in {"Display", "Exit"} /\ trace[k] \in CallNames) => k < j

C7_Witness ==
    /\ Len(calls) = 1
    /\ resp.err # Nil
    /\ status = "exited"
    /\ trace[Len(trace)] = "Exit"

----------------------------------------------------------------------------
(* C8 *)

\* C8, as stated: `invoice get` and `invoice items` given any number of
\* positional arguments other than one are rejected by argument validation
\* and issue no call.
C8_ExactlyOneArg ==
    (NeedsID /\ Len(inv.args) # 1) => (retErr = InvoiceIDError /\ calls = <<>>)

\* C8, amended: `invoice get` and `invoice items` require at least one
\* positional argument: with none the invocation is rejected by argument
\* validation before any call; with one or more it passes validation, and an
\* authenticated invocation goes on to run on the first argument.
C8_AtLeastOneArg ==
    NeedsID =>
        /\ Len(inv.args) = 0 => (retErr = InvoiceIDError /\ calls = <<>>)
        /\ Len(inv.args) >= 1 => retErr # InvoiceIDError
        /\ (Len(inv.args) >= 1 /\ HasAuth) => (retErr = Nil /\ status # "failed")

C8_Witness ==
    /\ inv.cmd = "invoice items"
    /\ Len(inv.args) = 2
    /\ Len(calls) = 1
    /\ calls[1].fn = "ListInvoiceItems"

----------------------------------------------------------------------------
(* C9 *)

\* C9, as stated: `invoice get <id>` with an ID that is not a decimal integer
\* reports a conversion error and never calls GetInvoice.
C9_GetParsesID ==
    (inv.cmd = "invoice get" /\ HasAuth /\ Len(inv.args) >= 1
        /\ ~IsDecimalInteger(inv.args[1])) =>
        /\ calls = <<>>
        /\ Len(errors) = 1

\* C9, amended: `invoice get <id>` does not parse its ID: an authenticated
\* invocation with at least one positional argument calls GetInvoice once
\* with the first argument as given, numeric or not, and reports no
\* conversion error.
C9_GetForwardsID ==
    (inv.cmd = "invoice get" /\ HasAuth /\ Len(inv.args) >= 1) =>
        /\ calls = << [fn |-> "GetInvoice", strID |-> inv.args[1],
                       intID |-> 0, opts |-> <<>>] >>
        /\ ~InTrace("Atoi")
        /\ \A k \in 1..Len(errors) : errors[k].prefix = "error getting invoice"

C9_Witness ==
    /\ inv.cmd = "invoice get"
    /\ Len(calls) = 1
    /\ calls[1].fn = "GetInvoice"
    /\ calls[1].strID = <<"a", "b", "c">>

----------------------------------------------------------------------------
(* C10 *)

\* C10: over successive invocations on the same command tree, every
\* ListInvoiceItems call receives the integer value of the current
\* invocation's first positional argument and its paging flags, and every
\* GetInvoice call receives the current invocation's first positional
\* argument; nothing left by an earlier invocation is forwarded.
C10_FreshParameters ==
    \A k \in 1..Len(calls) :
        /\ calls[k].fn = "ListInvoiceItems" =>
             /\ Len(inv.args) >= 1
             /\ IsDecimalInteger(inv.args[1])
             /\ calls[k].intID = DecimalValue(inv.args[1])
             /\ calls[k].opts = AskedPaging
        /\ calls[k].fn = "GetInvoice" =>
             /\ Len(inv.args) >= 1
             /\ calls[k].strID = inv.args[1]

C10_Witness ==
    /\ inv.cmd = "invoice items"
    /\ Len(calls) = 1
    /\ oldItemID # 0
    /\ calls[1].intID # oldItemID
    /\ calls[1].intID = 42

====
